---- MODULE Spec2Model ----
(***************************************************************************)
(* Model of zincati's configuration overlay (src/config/inputs.rs) and of  *)
(* its weekly-time utilities (src/weekly/utils.rs).                         *)
(*                                                                         *)
(* An Option<T> is a sequence of length at most one: <<>> is None and      *)
(* <<v>> is Some(v).  A Vec<T> is a sequence.                               *)
(***************************************************************************)
EXTENDS Integers, Sequences, FiniteSets

VARIABLES
    pc,         \* position of read_configs: "scan", "merge" or "done"
    nfiles,     \* number of paths scanner.scan() yields
    reads,      \* what reading and parsing each visited path gave, in scan order
    fragments,  \* the local Vec `fragments` of read_configs
    merged,     \* whether merge_fragments has been called
    result,     \* what read_configs returned
    call,       \* the weekly utility last called, with its arguments
    ret         \* what that call returned

vars == <<pc, nfiles, reads, fragments, merged, result, call, ret>>

None == <<>>
Some(v) == <<v>>
IsSome(o) == o # <<>>
Unwrap(o) == o[1]

(***************************************************************************)
(* Bounds of the model.                                                    *)
(***************************************************************************)
MaxFiles == 2
\* check_duration is tried on 0..SmallSecs whole seconds and on the whole
\* seconds within EdgeSpan of one week.
SmallSecs == 130
EdgeSpan == 130
\* time_from_string is tried on every string of at most MaxTimeLen characters
\* of TimeAlphabet.
MaxTimeLen == 5

(***************************************************************************)
(* Constants of the crate that live outside the two modelled files.        *)
(***************************************************************************)
\* update_agent::DEFAULT_STEADY_INTERVAL_SECS, a fixed non-zero number of seconds.
DEFAULT_STEADY_INTERVAL_SECS == 300
MAX_WEEKLY_MINS == 7 * 24 * 60
MAX_WEEKLY_SECS == MAX_WEEKLY_MINS * 60
U8_MAX == 255

(***************************************************************************)
(* Config fragments, as inputs.rs destructures them.                       *)
(***************************************************************************)
NoFragment == [agent |-> None, cincinnati |-> None, updates |-> None, identity |-> None]

NoUpdates ==
    [allow_downgrade |-> None, enabled |-> None, strategy |-> None,
     fleet_lock |-> None, periodic |-> None]

NoIdentity == [group |-> None, node_uuid |-> None, rollout_wariness |-> None]

NoPeriodic == [time_zone |-> None, window |-> None]

AgentFragments ==
    { [timing |-> None], [timing |-> Some([steady_interval_secs |-> None])] }
    \cup { [timing |-> Some([steady_interval_secs |-> Some(s)])] : s \in {1, 600} }

CincinnatiFragments ==
    { [base_url |-> None] }
    \cup { [base_url |-> Some(u)] : u \in {"http://a.example", "http://b.example"} }

IdentityFragments ==
    { NoIdentity }
    \cup { [NoIdentity EXCEPT !.group = Some(g)] : g \in {"workers", "canary"} }
    \cup { [NoIdentity EXCEPT !.node_uuid = Some(n)] : n \in {"27e3ac02", "e0f3745b"} }
    \* rollout wariness in thousandths: 0.25 and 1.0
    \cup { [NoIdentity EXCEPT !.rollout_wariness = Some(w)] : w \in {250, 1000} }
    \cup { [group |-> Some("canary"), node_uuid |-> Some("27e3ac02"),
            rollout_wariness |-> Some(250)] }

Window(days, start_time, length_minutes) ==
    [days |-> days, start_time |-> start_time, length_minutes |-> length_minutes]

WinWeekdays == Window(<<"Mon", "Wed", "Fri">>, "02:00", 60)
WinWeekend == Window(<<"Sat", "Sun">>, "23:30", MAX_WEEKLY_MINS)
WinZero == Window(<<"Sun">>, "00:00", 0)
WinLong == Window(<<"Tue", "Thu">>, "12:45", MAX_WEEKLY_MINS + 1)
WinHuge == Window(<<"Mon">>, "25:61", 2147483647)
WinNoDays == Window(<<>>, "02:00", 60)

WindowLists ==
    { <<>>, <<WinWeekdays>>, <<WinWeekend>>, <<WinZero>>, <<WinLong>>, <<WinHuge>>,
      <<WinNoDays>>, <<WinWeekdays, WinWeekend>>, <<WinNoDays, WinWeekend>> }

PeriodicFragments ==
    { NoPeriodic }
    \cup { [NoPeriodic EXCEPT !.time_zone = Some(tz)] : tz \in {"localtime", "Europe/Rome"} }
    \cup { [NoPeriodic EXCEPT !.window = Some(w)] : w \in WindowLists }
    \cup { [time_zone |-> Some("localtime"), window |-> Some(<<WinWeekend>>)] }

UpdateFragments ==
    { NoUpdates }
    \cup { [NoUpdates EXCEPT !.allow_downgrade = Some(b)] : b \in BOOLEAN }
    \cup { [NoUpdates EXCEPT !.enabled = Some(b)] : b \in BOOLEAN }
    \cup { [NoUpdates EXCEPT !.strategy = Some(s)] : s \in {"periodic", "fleet_lock"} }
    \cup { [NoUpdates EXCEPT !.fleet_lock = Some([base_url |-> None])] }
    \cup { [NoUpdates EXCEPT !.fleet_lock = Some([base_url |-> Some(u)])] :
             u \in {"http://lock.example", "http://lock2.example"} }
    \cup { [NoUpdates EXCEPT !.periodic = Some(p)] : p \in PeriodicFragments }
    \cup { [allow_downgrade |-> Some(TRUE), enabled |-> Some(FALSE),
            strategy |-> Some("periodic"),
            fleet_lock |-> Some([base_url |-> Some("http://lock.example")]),
            periodic |-> Some([time_zone |-> Some("Europe/Rome"),
                               window |-> Some(<<WinWeekdays>>)])] }

ConfigFragments ==
    { NoFragment }
    \cup { [NoFragment EXCEPT !.agent = Some(a)] : a \in AgentFragments }
    \cup { [NoFragment EXCEPT !.cincinnati = Some(c)] : c \in CincinnatiFragments }
    \cup { [NoFragment EXCEPT !.updates = Some(u)] : u \in UpdateFragments }
    \cup { [NoFragment EXCEPT !.identity = Some(i)] : i \in IdentityFragments }
    \cup { [agent |-> Some([timing |-> Some([steady_interval_secs |-> Some(600)])]),
            cincinnati |-> Some([base_url |-> Some("http://b.example")]),
            updates |-> Some([NoUpdates EXCEPT !.enabled = Some(FALSE)]),
            identity |-> Some([NoIdentity EXCEPT !.group = Some("workers")])] }

(***************************************************************************)
(* The merged configuration (inputs.rs).                                   *)
(***************************************************************************)
RECURSIVE AgentLoop(_, _)
AgentLoop(cfg, frags) ==
    IF frags = <<>> THEN cfg
    ELSE LET snip == Head(frags)
             next == IF IsSome(snip.timing)
                        /\ IsSome(Unwrap(snip.timing).steady_interval_secs)
                     THEN [cfg EXCEPT !.steady_interval_secs =
                               Unwrap(Unwrap(snip.timing).steady_interval_secs)]
                     ELSE cfg
         IN AgentLoop(next, Tail(frags))

AgentInput_from_fragments(frags) ==
    AgentLoop([steady_interval_secs |-> DEFAULT_STEADY_INTERVAL_SECS], frags)

\* A first-wins variant: a present value is taken only while the default stands.
CincinnatiStep_first(cfg, snip) ==
    IF IsSome(snip.base_url) /\ cfg.base_url = ""
    THEN [cfg EXCEPT !.base_url = Unwrap(snip.base_url)]
    ELSE cfg

CincinnatiStep(cfg, snip) ==
    IF IsSome(snip.base_url)
    THEN [cfg EXCEPT !.base_url = Unwrap(snip.base_url)]
    ELSE cfg

RECURSIVE CincinnatiLoop(_, _)
CincinnatiLoop(cfg, frags) ==
    IF frags = <<>> THEN cfg
    ELSE CincinnatiLoop(CincinnatiStep(cfg, Head(frags)), Tail(frags))

CincinnatiInput_from_fragments(frags) ==
    CincinnatiLoop([base_url |-> ""], frags)

RECURSIVE IdentityLoop(_, _)
IdentityLoop(cfg, frags) ==
    IF frags = <<>> THEN cfg
    ELSE LET snip == Head(frags)
             c1 == IF IsSome(snip.group)
                   THEN [cfg EXCEPT !.group = Unwrap(snip.group)] ELSE cfg
             c2 == IF IsSome(snip.node_uuid)
                   THEN [c1 EXCEPT !.node_uuid = Unwrap(snip.node_uuid)] ELSE c1
             c3 == IF IsSome(snip.rollout_wariness)
                   THEN [c2 EXCEPT !.rollout_wariness = Some(Unwrap(snip.rollout_wariness))]
                   ELSE c2
         IN IdentityLoop(c3, Tail(frags))

IdentityInput_from_fragments(frags) ==
    IdentityLoop([group |-> "", node_uuid |-> "", rollout_wariness |-> None], frags)

\* A variant that clamps the length to one week.
PeriodicIntervalInput_clamped(day, entry) ==
    [start_day |-> day, start_time |-> entry.start_time,
     length_minutes |-> IF entry.length_minutes > MAX_WEEKLY_MINS
                        THEN MAX_WEEKLY_MINS ELSE entry.length_minutes]

PeriodicIntervalInput(day, entry) ==
    [start_day |-> day, start_time |-> entry.start_time,
     length_minutes |-> entry.length_minutes]

\* `for day in entry.days { periodic.intervals.push(interval) }`
RECURSIVE PushDays(_, _, _)
PushDays(intervals, days, entry) ==
    IF days = <<>> THEN intervals
    ELSE PushDays(Append(intervals, PeriodicIntervalInput(Head(days), entry)),
                  Tail(days), entry)

\* `for entry in win { ... }`
RECURSIVE PushWindows(_, _)
PushWindows(intervals, win) ==
    IF win = <<>> THEN intervals
    ELSE PushWindows(PushDays(intervals, Head(win).days, Head(win)), Tail(win))

\* The scalar fields of one `snip` of UpdateInput::from_fragments.
UpdateScalars(cfg, snip) ==
    LET c1 == IF IsSome(snip.allow_downgrade)
              THEN [cfg EXCEPT !.allow_downgrade = Unwrap(snip.allow_downgrade)] ELSE cfg
        c2 == IF IsSome(snip.enabled)
              THEN [c1 EXCEPT !.enabled = Unwrap(snip.enabled)] ELSE c1
        c3 == IF IsSome(snip.strategy)
              THEN [c2 EXCEPT !.strategy = Unwrap(snip.strategy)] ELSE c2
        c4 == IF IsSome(snip.fleet_lock) /\ IsSome(Unwrap(snip.fleet_lock).base_url)
              THEN [c3 EXCEPT !.fleet_lock.base_url = Unwrap(Unwrap(snip.fleet_lock).base_url)]
              ELSE c3
    IN c4

\* A variant in which a fragment's windows replace the earlier ones.
UpdatePeriodic_replace(cfg, snip) ==
    IF IsSome(snip.periodic)
    THEN LET w == Unwrap(snip.periodic)
             c1 == IF IsSome(w.time_zone)
                   THEN [cfg EXCEPT !.periodic.time_zone = Unwrap(w.time_zone)] ELSE cfg
             c2 == IF IsSome(w.window)
                   THEN [c1 EXCEPT !.periodic.intervals = PushWindows(<<>>, Unwrap(w.window))]
                   ELSE c1
         IN c2
    ELSE cfg

\* The `periodic` section of one `snip` of UpdateInput::from_fragments.
UpdatePeriodic(cfg, snip) ==
    IF IsSome(snip.periodic)
    THEN LET w == Unwrap(snip.periodic)
             c1 == IF IsSome(w.time_zone)
                   THEN [cfg EXCEPT !.periodic.time_zone = Unwrap(w.time_zone)] ELSE cfg
             c2 == IF IsSome(w.window)
                   THEN [c1 EXCEPT !.periodic.intervals = PushWindows(@, Unwrap(w.window))]
                   ELSE c1
         IN c2
    ELSE cfg

RECURSIVE UpdateLoop(_, _)
UpdateLoop(cfg, frags) ==
    IF frags = <<>> THEN cfg
    ELSE UpdateLoop(UpdatePeriodic(UpdateScalars(cfg, Head(frags)), Head(frags)), Tail(frags))

\* A variant whose seeded time zone is the host's.
UpdateInput_from_fragments_localtime(frags) ==
    UpdateLoop([allow_downgrade |-> FALSE,
                enabled |-> TRUE,
                strategy |-> "",
                fleet_lock |-> [base_url |-> ""],
                periodic |-> [intervals |-> <<>>, time_zone |-> "localtime"]],
               frags)

UpdateInput_from_fragments(frags) ==
    UpdateLoop([allow_downgrade |-> FALSE,
                enabled |-> TRUE,
                strategy |-> "",
                fleet_lock |-> [base_url |-> ""],
                periodic |-> [intervals |-> <<>>, time_zone |-> "UTC"]],
               frags)

\* The first loop of merge_fragments: the present sections of one kind, in order.
RECURSIVE Sections(_, _)
Sections(frags, kind) ==
    IF frags = <<>> THEN <<>>
    ELSE LET snip == Head(frags)
             sec == CASE kind = "agent" -> snip.agent
                      [] kind = "cincinnati" -> snip.cincinnati
                      [] kind = "updates" -> snip.updates
                      [] kind = "identity" -> snip.identity
         IN (IF IsSome(sec) THEN <<Unwrap(sec)>> ELSE <<>>) \o Sections(Tail(frags), kind)

merge_fragments(frags) ==
    [agent |-> AgentInput_from_fragments(Sections(frags, "agent")),
     cincinnati |-> CincinnatiInput_from_fragments(Sections(frags, "cincinnati")),
     updates |-> UpdateInput_from_fragments(Sections(frags, "updates")),
     identity |-> IdentityInput_from_fragments(Sections(frags, "identity"))]

(***************************************************************************)
(* Weekly-time utilities (weekly/utils.rs).  A &str is the sequence of its *)
(* characters, each a one-character string.                                *)
(***************************************************************************)
UpperChars == <<"A", "B", "C", "D", "E", "F", "G", "H", "I", "J", "K", "L", "M", "N", "O", "P", "Q", "R", "S", "T", "U", "V", "W", "X", "Y", "Z">>
LowerChars == <<"a", "b", "c", "d", "e", "f", "g", "h", "i", "j", "k", "l", "m", "n", "o", "p", "q", "r", "s", "t", "u", "v", "w", "x", "y", "z">>

\* char::to_lowercase and char::to_uppercase on the characters of the model.
LowerChar(c) ==
    IF \E i \in 1..26 : UpperChars[i] = c
    THEN LowerChars[CHOOSE i \in 1..26 : UpperChars[i] = c]
    ELSE c

UpperChar(c) ==
    IF \E i \in 1..26 : LowerChars[i] = c
    THEN UpperChars[CHOOSE i \in 1..26 : LowerChars[i] = c]
    ELSE c

to_lowercase(input) == [i \in 1..Len(input) |-> LowerChar(input[i])]

Min(a, b) == IF a < b THEN a ELSE b

Weekdays == <<"Mon", "Tue", "Wed", "Thu", "Fri", "Sat", "Sun">>

\* chrono::Weekday::num_days_from_monday
num_days_from_monday(day) == (CHOOSE i \in 1..7 : Weekdays[i] = day) - 1

Panic(msg) == [ok |-> FALSE, val |-> msg]
RetOk(v) == [ok |-> TRUE, val |-> v]
RetErr(msg) == [ok |-> FALSE, val |-> msg]

\* A variant that does not clamp the hour and the minute.
time_as_weekly_minute_unclamped(day, hour, minute) ==
    LET hour_minutes == hour * 60
        day_minutes == (num_days_from_monday(day) * 24) * 60
        weekly_minute == (day_minutes + hour_minutes) + minute
    IN IF weekly_minute < MAX_WEEKLY_MINS
       THEN RetOk(weekly_minute)
       ELSE Panic("assertion failed: weekly_minute < MAX_WEEKLY_MINS")

\* The arithmetic is u32 and saturating.  With a u8 hour and minute and a
\* weekday index of at most 6 no product or sum exceeds 6*24*60 + 255*60 + 255,
\* far below u32::MAX, so saturating_mul and saturating_add are * and +.
time_as_weekly_minute(day, hour, minute) ==
    LET hour_minutes == Min(hour, 23) * 60
        day_minutes == (num_days_from_monday(day) * 24) * 60
        weekly_minute == (day_minutes + hour_minutes) + Min(minute, 59)
    IN IF weekly_minute < MAX_WEEKLY_MINS
       THEN RetOk(weekly_minute)
       ELSE Panic("assertion failed: weekly_minute < MAX_WEEKLY_MINS")

\* std::time::Duration: whole seconds and the sub-second nanoseconds.
as_secs(length) == length.secs

\* A variant without the lower bound.
check_duration_nonzero_unchecked(length) ==
    IF as_secs(length) > MAX_WEEKLY_SECS THEN RetErr("length longer than a week")
    ELSE RetOk("()")

\* A variant whose upper bound excludes the whole week.
check_duration_exclusive(length) ==
    IF as_secs(length) >= MAX_WEEKLY_SECS THEN RetErr("length longer than a week")
    ELSE IF as_secs(length) = 0 THEN RetErr("zero-length duration")
    ELSE RetOk("()")

check_duration(length) ==
    IF as_secs(length) > MAX_WEEKLY_SECS THEN RetErr("length longer than a week")
    ELSE IF as_secs(length) = 0 THEN RetErr("zero-length duration")
    ELSE RetOk("()")

weekday_from_string(input) ==
    LET s == to_lowercase(input) IN
    CASE s = <<"m", "o", "n">> \/ s = <<"m", "o", "n", "d", "a", "y">> -> RetOk("Mon")
      [] s = <<"t", "u", "e">> \/ s = <<"t", "u", "e", "s", "a", "d", "y">> -> RetOk("Tue")
      [] s = <<"w", "e", "d">> \/ s = <<"w", "e", "d", "n", "e", "s", "d", "a", "y">> -> RetOk("Wed")
      [] s = <<"t", "h", "u">> \/ s = <<"t", "h", "u", "r", "s", "d", "a", "y">> -> RetOk("Thu")
      [] s = <<"f", "r", "i">> \/ s = <<"f", "r", "i", "d", "a", "y">> -> RetOk("Fri")
      [] s = <<"s", "a", "t">> \/ s = <<"s", "a", "t", "u", "r", "d", "a", "y">> -> RetOk("Sat")
      [] s = <<"s", "u", "n">> \/ s = <<"s", "u", "n", "d", "a", "y">> -> RetOk("Sun")
      [] OTHER -> RetErr("unrecognized week day")

\* str::split(':'): the fields between the colons, at least one.
RECURSIVE SplitFrom(_, _, _)
SplitFrom(input, i, field) ==
    IF i > Len(input) THEN <<field>>
    ELSE IF input[i] = ":" THEN <<field>> \o SplitFrom(input, i + 1, <<>>)
    ELSE SplitFrom(input, i + 1, Append(field, input[i]))

split(input) == SplitFrom(input, 1, <<>>)

DigitChars == <<"0", "1", "2", "3", "4", "5", "6", "7", "8", "9">>
IsDigit(c) == \E i \in 1..10 : DigitChars[i] = c
to_digit(c) == (CHOOSE i \in 1..10 : DigitChars[i] = c) - 1

\* The digit loop of u8::from_str: checked_mul(10) then checked_add(digit).
RECURSIVE ParseDigits(_, _)
ParseDigits(digits, acc) ==
    IF digits = <<>> THEN Some(acc)
    ELSE IF ~IsDigit(Head(digits)) THEN None
    ELSE IF acc * 10 > U8_MAX THEN None
    ELSE IF acc * 10 + to_digit(Head(digits)) > U8_MAX THEN None
    ELSE ParseDigits(Tail(digits), acc * 10 + to_digit(Head(digits)))

\* str::parse::<u8>: empty input and a lone sign are errors, a leading '+' is
\* accepted, and '-' is no digit of an unsigned type.
parse_u8(field) ==
    IF field = <<>> THEN None
    ELSE IF Len(field) = 1 /\ Head(field) \in {"+", "-"} THEN None
    ELSE IF Head(field) = "+" THEN ParseDigits(Tail(field), 0)
    ELSE ParseDigits(field, 0)

\* A variant that does not check the range of the hour and the minute.
time_from_string_unchecked(input) ==
    LET fields == split(input) IN
    IF Len(fields) # 2 THEN RetErr("unrecognized time value")
    ELSE LET hour == parse_u8(fields[1])
             minute == parse_u8(fields[2])
         IN IF ~IsSome(hour) THEN RetErr("unrecognized time (hour) value")
            ELSE IF ~IsSome(minute) THEN RetErr("unrecognized time (minute) value")
            ELSE RetOk(<<Unwrap(hour), Unwrap(minute)>>)

time_from_string(input) ==
    LET fields == split(input) IN
    IF Len(fields) # 2 THEN RetErr("unrecognized time value")
    ELSE LET hour == parse_u8(fields[1])
             minute == parse_u8(fields[2])
         IN IF ~IsSome(hour) THEN RetErr("unrecognized time (hour) value")
            ELSE IF ~IsSome(minute) THEN RetErr("unrecognized time (minute) value")
            ELSE IF ~(Unwrap(hour) <= 23 /\ Unwrap(minute) <= 59)
                 THEN RetErr("invalid time")
            ELSE RetOk(<<Unwrap(hour), Unwrap(minute)>>)

(***************************************************************************)
(* ConfigInput::read_configs.                                              *)
(***************************************************************************)
\* What std::fs::read followed by toml::from_slice gives for one path.
ReadOutcomes ==
    { [kind |-> "read_error", frag |-> None], [kind |-> "parse_error", frag |-> None] }
    \cup { [kind |-> "ok", frag |-> Some(f)] : f \in ConfigFragments }

Pending == [tag |-> "pending", err |-> "", cfg |-> None]
Err(msg) == [tag |-> "err", err |-> msg, cfg |-> None]
Ok(cfg) == [tag |-> "ok", err |-> "", cfg |-> Some(cfg)]

Idle == [fn |-> "none", arg |-> <<>>]
NoRet == [ok |-> FALSE, val |-> <<>>]

Init ==
    /\ pc = "scan"
    /\ nfiles \in 0..MaxFiles
    /\ reads = <<>>
    /\ fragments = <<>>
    /\ merged = FALSE
    /\ result = Pending
    /\ call = Idle
    /\ ret = NoRet

\* A variant that skips a fragment it cannot read or parse.
ReadFragment_skip(o) ==
    /\ pc = "scan"
    /\ Len(reads) < nfiles
    /\ reads' = Append(reads, o)
    /\ fragments' = IF o.kind = "ok" THEN Append(fragments, Unwrap(o.frag)) ELSE fragments
    /\ UNCHANGED <<result, pc, nfiles, merged, call, ret>>

\* One iteration of `for (_, fpath) in scanner.scan()`.
ReadFragment(o) ==
    /\ pc = "scan"
    /\ Len(reads) < nfiles
    /\ reads' = Append(reads, o)
    /\ IF o.kind = "read_error"
       THEN /\ result' = Err("failed to read file")
            /\ pc' = "done"
            /\ UNCHANGED fragments
       ELSE IF o.kind = "parse_error"
       THEN /\ result' = Err("failed to parse TOML")
            /\ pc' = "done"
            /\ UNCHANGED fragments
       ELSE /\ fragments' = Append(fragments, Unwrap(o.frag))
            /\ UNCHANGED <<result, pc>>
    /\ UNCHANGED <<nfiles, merged, call, ret>>

\* `let cfg = Self::merge_fragments(fragments); Ok(cfg)`
Merge ==
    /\ pc = "scan"
    /\ Len(reads) = nfiles
    /\ merged' = TRUE
    /\ result' = Ok(merge_fragments(fragments))
    /\ pc' = "done"
    /\ UNCHANGED <<nfiles, reads, fragments, call, ret>>

Next ==
    \/ \E o \in ReadOutcomes : ReadFragment(o)
    \/ Merge

Spec == Init /\ [][Next]_vars

(***************************************************************************)
(* Calls of the weekly-time utilities, each on every input of a bounded    *)
(* set.                                                                    *)
(***************************************************************************)
\* read_configs is not running while the utilities are exercised.
NotReading ==
    /\ pc = "off"
    /\ nfiles = 0
    /\ reads = <<>>
    /\ fragments = <<>>
    /\ merged = FALSE
    /\ result = Pending

\* One call per behaviour: the utilities keep no state between calls.
InitUtils == NotReading /\ call = Idle /\ ret = NoRet

Called(fn, arg, r) ==
    /\ call' = [fn |-> fn, arg |-> arg]
    /\ ret' = r
    /\ UNCHANGED <<pc, nfiles, reads, fragments, merged, result>>

CaseVariants(w) ==
    { [i \in 1..Len(w) |-> IF i \in S THEN UpperChar(w[i]) ELSE w[i]] :
        S \in SUBSET (1..Len(w)) }

WeekdayWords ==
    { <<"m", "o", "n">>,
      <<"t", "u", "e">>,
      <<"w", "e", "d">>,
      <<"t", "h", "u">>,
      <<"f", "r", "i">>,
      <<"s", "a", "t">>,
      <<"s", "u", "n">>,
      <<"m", "o", "n", "d", "a", "y">>,
      <<"t", "u", "e", "s", "d", "a", "y">>,
      <<"w", "e", "d", "n", "e", "s", "d", "a", "y">>,
      <<"t", "h", "u", "r", "s", "d", "a", "y">>,
      <<"f", "r", "i", "d", "a", "y">>,
      <<"s", "a", "t", "u", "r", "d", "a", "y">>,
      <<"s", "u", "n", "d", "a", "y">>,
      <<"t", "u", "e", "s", "a", "d", "y">>,
      <<>>,
      <<"m">>,
      <<"m", "o">>,
      <<"m", "o", "n", "d">>,
      <<"m", "o", "n", "d", "a", "y", "s">>,
      <<"t", "u", "e", "s">>,
      <<"t", "h", "u", "r">>,
      <<"t", "h", "u", "r", "s">>,
      <<"w", "e", "d", "s">>,
      <<"d", "o", "m", "e", "n", "i", "c", "a">>,
      <<"l", "u", "n", "e", "d", "i">>,
      <<"m", "o", "n", " ">>,
      <<" ", "m", "o", "n">>,
      <<"m", "0", "n">>,
      <<"s", "u", "n", ".">>,
      <<"d", "a", "y">>,
      <<"s", "o", "n", "d", "a", "y">>,
      <<"1">> }

WeekdayInputs == UNION { CaseVariants(w) : w \in WeekdayWords }

Call_weekday_from_string ==
    /\ call = Idle
    /\ \E input \in WeekdayInputs :
        Called("weekday_from_string", input, weekday_from_string(input))

SpecWeekday == InitUtils /\ [][Call_weekday_from_string]_vars

SecsSamples ==
    (0..SmallSecs)
    \cup ((MAX_WEEKLY_SECS - EdgeSpan)..(MAX_WEEKLY_SECS + EdgeSpan))
    \cup {2147483647}

DurationInputs == [secs : SecsSamples, nanos : {0, 999999999}]

Call_check_duration ==
    /\ call = Idle
    /\ \E length \in DurationInputs :
        Called("check_duration", length, check_duration(length))

SpecDuration == InitUtils /\ [][Call_check_duration]_vars

Call_time_as_weekly_minute ==
    /\ call = Idle
    /\ \E d \in 1..7 : \E hour \in 0..U8_MAX : \E minute \in 0..U8_MAX :
        Called("time_as_weekly_minute",
               [day |-> Weekdays[d], hour |-> hour, minute |-> minute],
               time_as_weekly_minute(Weekdays[d], hour, minute))

SpecWeeklyMinute == InitUtils /\ [][Call_time_as_weekly_minute]_vars

TimeAlphabet == {"0", "2", "3", "5", "6", ":", "+", "-", "x", " "}

Call_time_from_string ==
    /\ call = Idle
    /\ \E n \in 0..MaxTimeLen : \E input \in [1..n -> TimeAlphabet] :
        Called("time_from_string", input, time_from_string(input))

SpecTime == InitUtils /\ [][Call_time_from_string]_vars

(***************************************************************************)
(* Properties of the overlay (specification Spec).                         *)
(***************************************************************************)
Returned == result.tag = "ok"
Cfg == Unwrap(result.cfg)
Prefix(seq, k) == SubSeq(seq, 1, k)

ScalarFields ==
    { "steady_interval_secs", "cincinnati.base_url", "allow_downgrade", "enabled",
      "strategy", "fleet_lock.base_url", "time_zone", "group", "node_uuid",
      "rollout_wariness" }

\* The Option a fragment holds for a scalar field, None when any enclosing
\* table is absent.
UpdatesField(f, name) ==
    IF ~IsSome(f.updates) THEN None
    ELSE LET u == Unwrap(f.updates) IN
         CASE name = "allow_downgrade" -> u.allow_downgrade
           [] name = "enabled" -> u.enabled
           [] name = "strategy" -> u.strategy
           [] name = "fleet_lock.base_url" ->
                IF IsSome(u.fleet_lock) THEN Unwrap(u.fleet_lock).base_url ELSE None
           [] name = "time_zone" ->
                IF IsSome(u.periodic) THEN Unwrap(u.periodic).time_zone ELSE None

FragField(f, name) ==
    CASE name = "steady_interval_secs" ->
            IF IsSome(f.agent) /\ IsSome(Unwrap(f.agent).timing)
            THEN Unwrap(Unwrap(f.agent).timing).steady_interval_secs ELSE None
      [] name = "cincinnati.base_url" ->
            IF IsSome(f.cincinnati) THEN Unwrap(f.cincinnati).base_url ELSE None
      [] name = "group" -> IF IsSome(f.identity) THEN Unwrap(f.identity).group ELSE None
      [] name = "node_uuid" -> IF IsSome(f.identity) THEN Unwrap(f.identity).node_uuid ELSE None
      [] name = "rollout_wariness" ->
            IF IsSome(f.identity) THEN Unwrap(f.identity).rollout_wariness ELSE None
      [] OTHER -> UpdatesField(f, name)

\* The merged value of a scalar field, as an Option (rollout_wariness is the
\* only field that stays optional in the merged configuration).
CfgField(cfg, name) ==
    CASE name = "steady_interval_secs" -> Some(cfg.agent.steady_interval_secs)
      [] name = "cincinnati.base_url" -> Some(cfg.cincinnati.base_url)
      [] name = "allow_downgrade" -> Some(cfg.updates.allow_downgrade)
      [] name = "enabled" -> Some(cfg.updates.enabled)
      [] name = "strategy" -> Some(cfg.updates.strategy)
      [] name = "fleet_lock.base_url" -> Some(cfg.updates.fleet_lock.base_url)
      [] name = "time_zone" -> Some(cfg.updates.periodic.time_zone)
      [] name = "group" -> Some(cfg.identity.group)
      [] name = "node_uuid" -> Some(cfg.identity.node_uuid)
      [] name = "rollout_wariness" -> cfg.identity.rollout_wariness

DefaultField(name) ==
    CASE name = "steady_interval_secs" -> Some(DEFAULT_STEADY_INTERVAL_SECS)
      [] name = "cincinnati.base_url" -> Some("")
      [] name = "allow_downgrade" -> Some(FALSE)
      [] name = "enabled" -> Some(TRUE)
      [] name = "strategy" -> Some("")
      [] name = "fleet_lock.base_url" -> Some("")
      [] name = "time_zone" -> Some("UTC")
      [] name = "group" -> Some("")
      [] name = "node_uuid" -> Some("")
      [] name = "rollout_wariness" -> None

PresentAt(frags, name) == { i \in 1..Len(frags) : IsSome(FragField(frags[i], name)) }

LastWins(frags, name) ==
    IF PresentAt(frags, name) = {} THEN DefaultField(name)
    ELSE LET last == CHOOSE i \in PresentAt(frags, name) :
                        \A j \in PresentAt(frags, name) : j <= i
         IN FragField(frags[last], name)

\* C1: every scalar field of the merged configuration holds the value of the
\* last fragment in which it is present, its default when no fragment has it,
\* and a fragment in which it is absent leaves the running value unchanged.
C1_LastFragmentWins ==
    Returned =>
        \A name \in ScalarFields :
            /\ CfgField(Cfg, name) = LastWins(fragments, name)
            /\ \A k \in 1..Len(fragments) :
                  ~IsSome(FragField(fragments[k], name)) =>
                      CfgField(merge_fragments(Prefix(fragments, k)), name)
                          = CfgField(merge_fragments(Prefix(fragments, k - 1)), name)

\* Two fragments set the same field to different values, and a later fragment
\* leaves a field alone that an earlier one set.
C1_Witness ==
    /\ Returned
    /\ Len(fragments) = 2
    /\ \E name \in ScalarFields :
          /\ PresentAt(fragments, name) = {1, 2}
          /\ FragField(fragments[1], name) # FragField(fragments[2], name)
          /\ CfgField(Cfg, name) = FragField(fragments[2], name)

RECURSIVE Flatten(_)
Flatten(seqs) == IF seqs = <<>> THEN <<>> ELSE Head(seqs) \o Flatten(Tail(seqs))

\* The windows a fragment declares, in the order it declares them.
WindowsOf(f) ==
    IF IsSome(f.updates) /\ IsSome(Unwrap(f.updates).periodic)
       /\ IsSome(Unwrap(Unwrap(f.updates).periodic).window)
    THEN Unwrap(Unwrap(Unwrap(f.updates).periodic).window)
    ELSE <<>>

AllWindows(frags) == Flatten([i \in 1..Len(frags) |-> WindowsOf(frags[i])])

\* One interval per (window, named day) pair, in window order then day order.
ExpandedIntervals(frags) ==
    LET ws == AllWindows(frags)
    IN Flatten([w \in 1..Len(ws) |->
                  [d \in 1..Len(ws[w].days) |->
                      [start_day |-> ws[w].days[d],
                       start_time |-> ws[w].start_time,
                       length_minutes |-> ws[w].length_minutes]]])

RECURSIVE SumDays(_)
SumDays(ws) == IF ws = <<>> THEN 0 ELSE Len(Head(ws).days) + SumDays(Tail(ws))

IsPrefixOf(a, b) == Len(a) <= Len(b) /\ Prefix(b, Len(a)) = a

\* C2: the periodic interval list is the concatenation, in fragment, window
\* and day order, of one interval per (window, named day) pair carrying the
\* day, the window's start time and its length; later fragments only append.
C2_WindowsAccumulate ==
    Returned =>
        /\ Cfg.updates.periodic.intervals = ExpandedIntervals(fragments)
        /\ Len(Cfg.updates.periodic.intervals) = SumDays(AllWindows(fragments))
        /\ \A k \in 0..Len(fragments) :
              IsPrefixOf(merge_fragments(Prefix(fragments, k)).updates.periodic.intervals,
                         Cfg.updates.periodic.intervals)

\* Two fragments each declare windows, the first one a window of 3 days.
C2_Witness ==
    /\ Returned
    /\ Len(fragments) = 2
    /\ WindowsOf(fragments[1]) = <<WinWeekdays>>
    /\ WindowsOf(fragments[2]) = <<WinWeekend>>
    /\ Len(Cfg.updates.periodic.intervals) = 5

ValidLength(m) == m > 0 /\ m <= MAX_WEEKLY_MINS

Failed(o) == o.kind # "ok"

\* C9: read_configs is all-or-nothing.  A fragment that cannot be read or
\* parsed ends the scan with an error, no configuration and no call of
\* merge_fragments; a configuration is returned only once every scanned
\* fragment was read and parsed, and it is the merge of all of them in order.
C9_AllOrNothing ==
    /\ (\E i \in 1..Len(reads) : Failed(reads[i])) =>
          /\ Failed(reads[Len(reads)])
          /\ \A i \in 1..(Len(reads) - 1) : ~Failed(reads[i])
          /\ pc = "done"
          /\ result.tag = "err"
          /\ result.cfg = None
          /\ ~merged
    /\ merged => Returned
    /\ Returned =>
          /\ Len(reads) = nfiles
          /\ \A i \in 1..nfiles : ~Failed(reads[i])
          /\ Cfg = merge_fragments([i \in 1..nfiles |-> Unwrap(reads[i].frag)])
    /\ pc = "done" => result.tag \in {"ok", "err"}

\* The second of two fragments fails after the first was read and parsed.
C9_Witness ==
    /\ nfiles = 2
    /\ Len(reads) = 2
    /\ ~Failed(reads[1])
    /\ Failed(reads[2])
    /\ result.tag = "err"

\* C10: merging no fragment gives the defaults in every field.
C10_EmptyMergeDefaults ==
    (Returned /\ fragments = <<>>) =>
        /\ Cfg = [agent |-> [steady_interval_secs |-> DEFAULT_STEADY_INTERVAL_SECS],
                  cincinnati |-> [base_url |-> ""],
                  updates |-> [allow_downgrade |-> FALSE,
                               enabled |-> TRUE,
                               strategy |-> "",
                               fleet_lock |-> [base_url |-> ""],
                               periodic |-> [intervals |-> <<>>, time_zone |-> "UTC"]],
                  identity |-> [group |-> "", node_uuid |-> "",
                                rollout_wariness |-> None]]
        /\ Cfg.agent.steady_interval_secs # 0

\* read_configs found no fragment and returned the merge of none.
C10_Witness == Returned /\ nfiles = 0 /\ fragments = <<>> /\ merged

(***************************************************************************)
(* Properties of the weekly-time utilities.                                *)
(***************************************************************************)
FullNames ==
    << <<"m", "o", "n", "d", "a", "y">>,
       <<"t", "u", "e", "s", "d", "a", "y">>,
       <<"w", "e", "d", "n", "e", "s", "d", "a", "y">>,
       <<"t", "h", "u", "r", "s", "d", "a", "y">>,
       <<"f", "r", "i", "d", "a", "y">>,
       <<"s", "a", "t", "u", "r", "d", "a", "y">>,
       <<"s", "u", "n", "d", "a", "y">> >>

EqualIgnoringCase(a, b) ==
    Len(a) = Len(b) /\ \A i \in 1..Len(a) : UpperChar(a[i]) = UpperChar(b[i])

\* The weekdays an input names, by full English name or by its first 3 letters.
NamedDays(input) ==
    { d \in 1..7 : \/ EqualIgnoringCase(input, FullNames[d])
                   \/ EqualIgnoringCase(input, Prefix(FullNames[d], 3)) }

\* C4: weekday_from_string returns the weekday for each full English name and
\* each 3-letter abbreviation in any letter case, and an error for every
\* other input.
C4_WeekdayNames ==
    call.fn = "weekday_from_string" =>
        IF NamedDays(call.arg) # {}
        THEN ret.ok /\ \E d \in NamedDays(call.arg) : ret.val = Weekdays[d]
        ELSE ~ret.ok

Clamp(v, top) == IF v > top THEN top ELSE v

DayIndex(day) ==
    CASE day = "Mon" -> 0 [] day = "Tue" -> 1 [] day = "Wed" -> 2 [] day = "Thu" -> 3
      [] day = "Fri" -> 4 [] day = "Sat" -> 5 [] day = "Sun" -> 6

\* C7: for every weekday and every u8 hour and minute, time_as_weekly_minute
\* passes its range assertion and returns
\* weekday_index*1440 + min(hour,23)*60 + min(minute,59), below 10080.
C7_WeeklyMinute ==
    call.fn = "time_as_weekly_minute" =>
        LET a == call.arg IN
        /\ ret.ok
        /\ ret.val = DayIndex(a.day) * 1440 + Clamp(a.hour, 23) * 60 + Clamp(a.minute, 59)
        /\ ret.val < 10080
        /\ ret.val >= 0
        /\ (a.hour <= 23 /\ a.minute <= 59 =>
                ret.val = DayIndex(a.day) * 1440 + a.hour * 60 + a.minute)

\* The last minute of the week is reached from an hour and a minute out of range.
C7_Witness ==
    /\ call.fn = "time_as_weekly_minute"
    /\ call.arg = [day |-> "Sun", hour |-> 255, minute |-> 255]
    /\ ret = RetOk(10079)

ColonsAt(input) == { i \in 1..Len(input) : input[i] = ":" }

\* An unsigned integer literal as Rust reads one: decimal digits, at least
\* one, after an optional '+'.
UnsignedDigits(field) ==
    IF field # <<>> /\ field[1] = "+" THEN Tail(field) ELSE field

IsUnsignedLiteral(field) ==
    /\ UnsignedDigits(field) # <<>>
    /\ \A i \in 1..Len(UnsignedDigits(field)) :
          UnsignedDigits(field)[i] \in {"0", "1", "2", "3", "4", "5", "6", "7", "8", "9"}

RECURSIVE Pow10(_)
Pow10(n) == IF n = 0 THEN 1 ELSE 10 * Pow10(n - 1)

RECURSIVE SumTo(_, _)
SumTo(f, n) == IF n = 0 THEN 0 ELSE f[n] + SumTo(f, n - 1)

LiteralValue(field) ==
    LET ds == UnsignedDigits(field)
    IN SumTo([i \in 1..Len(ds) |-> to_digit(ds[i]) * Pow10(Len(ds) - i)], Len(ds))

\* The (hour, minute) an input denotes, if it is a well-formed time.
WellFormedTime(input) ==
    /\ Cardinality(ColonsAt(input)) = 1
    /\ LET p == CHOOSE i \in ColonsAt(input) : TRUE
           h == SubSeq(input, 1, p - 1)
           m == SubSeq(input, p + 1, Len(input))
       IN /\ IsUnsignedLiteral(h)
          /\ IsUnsignedLiteral(m)
          /\ LiteralValue(h) <= 23
          /\ LiteralValue(m) <= 59

TimeOf(input) ==
    LET p == CHOOSE i \in ColonsAt(input) : TRUE
    IN <<LiteralValue(SubSeq(input, 1, p - 1)),
         LiteralValue(SubSeq(input, p + 1, Len(input)))>>

====
